---- MODULE Spec2Model ----
(***************************************************************************)
(* Tank Volume Calculator (custom_components/tank_volume).                 *)
(*                                                                         *)
(* The geometry engine of sensor.py works on Python floats.  A float is    *)
(* modelled as a binary fixed-point number: the integer n stands for the   *)
(* real n / 2^20.  Every arithmetic operator of the code ( * / sqrt acos)  *)
(* is an operator on these numbers that rounds towards zero, so that a     *)
(* result is within a few 2^-20 of the float the code computes.  The       *)
(* "no value" result (Python None) is the empty sequence, a value v is     *)
(* the one-element sequence <<v>>.                                         *)
(*                                                                         *)
(* GeomSpec calls the three geometry functions, CompSpec calls             *)
(* apply_temperature_compensation and imports the constants, SensorSpec    *)
(* runs the callbacks of TankVolumeSensor on the states of the source and  *)
(* of the temperature entity.                                              *)
(***************************************************************************)
EXTENDS Integers, Sequences, FiniteSets, TLC

VARIABLES
    op,         \* the operation of the geometry engine that is called
    args,       \* its arguments, a record
    pc,         \* "call" before the operation ran, "done" after it returned
    ret,        \* the value it returned (None before the call)
    self,       \* the TankVolumeSensor, a record of its attributes
    hass,       \* hass.states: the state of the source entity, of the
                \* temperature entity and of the sensor itself
    calls,      \* the calls of the geometry engine and of the compensation
                \* made by the last handler
    exc,        \* the exception that left the last handler, "" if none
    last,       \* the last callback that ran
    entries,    \* hass.config_entries: the config entries, in order of creation
    flows,      \* the config flows: the step each is at and its _user_input
    options_flow,   \* the options flow: its step, its entry, its _options_input
    result      \* the result of the last step of a flow

call_vars == <<op, args, pc, ret>>
sensor_vars == <<self, hass, calls, exc, last>>
flow_vars == <<entries, flows, options_flow, result>>
vars == <<op, args, pc, ret, self, hass, calls, exc, last,
          entries, flows, options_flow, result>>

-----------------------------------------------------------------------------
(* Fixed-point numbers.                                                    *)

FracBits == 20
F == 2^FracBits             \* the float 1.0
HalfF == 2^(FracBits \div 2)

None == << >>
Some(v) == <<v>>

Abs(a) == IF a < 0 THEN -a ELSE a
Sign(a) == IF a < 0 THEN -1 ELSE 1

Num(k) == k * F             \* the float of the integer k
Half(k) == k * (F \div 2)   \* the float k / 2

\* a * b on floats; operands below 2^30 in magnitude.
FxMul(a, b) ==
    LET a1 == Abs(a) \div HalfF
        a0 == Abs(a) % HalfF
        b1 == Abs(b) \div HalfF
        b0 == Abs(b) % HalfF
        m  == a1 * b1 + ((a1 * b0 + a0 * b1 + ((a0 * b0) \div HalfF)) \div HalfF)
    IN  Sign(a) * Sign(b) * m

\* The FracBits fraction bits of rem / b, by long division (0 <= rem < b).
RECURSIVE DivBits(_, _, _, _)
DivBits(rem, b, n, acc) ==
    IF n = 0 THEN acc
    ELSE IF 2 * rem >= b THEN DivBits(2 * rem - b, b, n - 1, 2 * acc + 1)
         ELSE DivBits(2 * rem, b, n - 1, 2 * acc)

\* a / b on floats, b # 0 (Python raises ZeroDivisionError for b = 0; the
\* callers test for it).
FxDiv(a, b) ==
    LET x == Abs(a)
        y == Abs(b)
    IN  Sign(a) * Sign(b) * ((x \div y) * F + DivBits(x % y, y, FracBits, 0))

\* c * c <= v, exactly: the quotient and the remainder of c * c by 2^20.
SquareLeq(c, v) ==
    LET c1  == c \div HalfF
        c0  == c % HalfF
        rem == (((2 * c1 * c0) % HalfF) * HalfF + c0 * c0) % F
    IN  FxMul(c, c) < v \/ (FxMul(c, c) = v /\ rem = 0)

\* math.sqrt(v) for v >= 0: the largest s with s * s <= v, bit by bit.
RECURSIVE SqrtBits(_, _, _)
SqrtBits(v, s, i) ==
    IF i < 0 THEN s
    ELSE IF SquareLeq(s + 2^i, v) THEN SqrtBits(v, s + 2^i, i - 1)
         ELSE SqrtBits(v, s, i - 1)

FxSqrt(v) == SqrtBits(v, 0, FracBits + 5)

\* math.pi, as a float and with 8 more fraction bits.
Pi == 3294199
Pi28 == 843314857

\* atan(2^-i) * 2^28 for i = 0 .. 27: the rotation angles of CORDIC.
AtanTable ==
    << 210828714, 124459457, 65760959, 33381290, 16755422, 8385879, 4193963,
       2097109, 1048571, 524287, 262144, 131072, 65536, 32768, 16384, 8192,
       4096, 2048, 1024, 512, 256, 128, 64, 32, 16, 8, 4, 2 >>

\* CORDIC in vectoring mode: rotates (x, y), x >= 0, onto the x axis and
\* accumulates the angle atan(y / x) in z (28 fraction bits).
RECURSIVE Cordic(_, _, _, _)
Cordic(x, y, z, i) ==
    IF i >= Len(AtanTable) THEN z
    ELSE IF y > 0
         THEN Cordic(x + (y \div 2^i), y - (x \div 2^i), z + AtanTable[i + 1], i + 1)
         ELSE Cordic(x - (y \div 2^i), y + (x \div 2^i), z - AtanTable[i + 1], i + 1)

\* math.acos(x) for -1 <= x <= 1, as atan2(sqrt(1 - x^2), x).
FxAcos(x) ==
    LET y  == FxSqrt(F - FxMul(x, x))
        z  == Cordic(Abs(x) * 2^7, y * 2^7, 0, 0)
        zc == IF z < 0 THEN 0 ELSE z
    IN  IF x >= 0 THEN (zc + 2^7) \div 2^8
        ELSE (Pi28 - zc + 2^7) \div 2^8

-----------------------------------------------------------------------------
(* const.py                                                                *)

END_CAP_FLAT == "flat"
END_CAP_ELLIPSOIDAL_2_1 == "ellipsoidal_2_1"

Min(a, b) == IF a < b THEN a ELSE b
Max(a, b) == IF a > b THEN a ELSE b

-----------------------------------------------------------------------------
(* sensor.py: the geometry engine                                          *)

\* cylinder_percentage with the circle area taken from the diameter
\* (pi * d * d) instead of the radius.
cylinder_percentage_diameter_area(h, r) ==
    IF r = 0 THEN None
    ELSE
    LET x == FxDiv(r - h, r)
        s == FxMul(FxMul(Num(2), r), h) - FxMul(h, h)
    IN  IF x < -F \/ x > F \/ s < 0 THEN None
        ELSE
        LET arccos_term  == FxMul(FxMul(r, r), FxAcos(x))
            sqrt_term    == FxMul(r - h, FxSqrt(s))
            segment_area == arccos_term - sqrt_term
            circle_area  == FxMul(FxMul(Pi, FxMul(Num(2), r)), FxMul(Num(2), r))
        IN  IF circle_area = 0 THEN None
            ELSE Some(FxMul(FxDiv(segment_area, circle_area), Num(100)))

\* The try block of compute_horizontal_cylinder_volume_percentage: the
\* percentage of the circle below height h, 0 < h < 2r.  A ValueError or a
\* ZeroDivisionError of the block is the result None.
cylinder_percentage(h, r) ==
    IF r = 0 THEN None                                \* ZeroDivisionError
    ELSE
    LET x == FxDiv(r - h, r)
        s == FxMul(FxMul(Num(2), r), h) - FxMul(h, h)
    IN  IF x < -F \/ x > F \/ s < 0 THEN None         \* ValueError
        ELSE
        LET arccos_term  == FxMul(FxMul(r, r), FxAcos(x))
            sqrt_term    == FxMul(r - h, FxSqrt(s))
            segment_area == arccos_term - sqrt_term
            circle_area  == FxMul(FxMul(Pi, r), r)
        IN  IF circle_area = 0 THEN None              \* ZeroDivisionError
            ELSE Some(FxMul(FxDiv(segment_area, circle_area), Num(100)))

compute_horizontal_cylinder_volume_percentage(fill_height_inches, diameter_inches) ==
    IF diameter_inches <= 0 THEN None
    ELSE
    LET h == Max(0, Min(fill_height_inches, diameter_inches))
        r == FxDiv(diameter_inches, Num(2))
    IN  IF h <= 0 THEN Some(Num(0))
        ELSE IF h >= diameter_inches THEN Some(Num(100))
        ELSE cylinder_percentage(h, r)

\* compute_ellipsoidal_head_volume with the full-head test fill_height >
\* diameter instead of >=.
head_volume_strict_full(fill_height, radius, head_depth) ==
    IF fill_height <= 0 THEN Num(0)
    ELSE
    LET diameter == FxMul(Num(2), radius)
    IN  IF fill_height > diameter
        THEN FxMul(FxMul(FxMul(FxMul(FxDiv(Num(2), Num(3)), Pi), radius), radius),
                   head_depth)
        ELSE
        LET h == fill_height
            r == radius
            a == head_depth
        IN  FxMul(FxMul(FxMul(FxDiv(FxMul(Pi, a), FxMul(FxMul(Num(3), r), r)), h), h),
                  FxMul(Num(3), r) - h)

compute_ellipsoidal_head_volume(fill_height, radius, head_depth) ==
    IF fill_height <= 0 THEN Num(0)
    ELSE
    LET diameter == FxMul(Num(2), radius)
    IN  IF fill_height >= diameter
        THEN FxMul(FxMul(FxMul(FxMul(FxDiv(Num(2), Num(3)), Pi), radius), radius),
                   head_depth)
        ELSE
        LET h == fill_height
            r == radius
            a == head_depth
        IN  FxMul(FxMul(FxMul(FxDiv(FxMul(Pi, a), FxMul(FxMul(Num(3), r), r)), h), h),
                  FxMul(Num(3), r) - h)

\* tank_percentage with the capacity of the two heads counted for flat
\* end caps too.
tank_percentage_heads_in_capacity(h, r, cylinder_length, end_cap_type) ==
    IF r = 0 THEN None
    ELSE
    LET x == FxDiv(r - h, r)
        s == FxMul(FxMul(Num(2), r), h) - FxMul(h, h)
    IN  IF x < -F \/ x > F \/ s < 0 THEN None
        ELSE IF end_cap_type \notin {END_CAP_FLAT, END_CAP_ELLIPSOIDAL_2_1}
        THEN None
        ELSE
        LET arccos_term     == FxMul(FxMul(r, r), FxAcos(x))
            sqrt_term       == FxMul(r - h, FxSqrt(s))
            segment_area    == arccos_term - sqrt_term
            cylinder_volume == FxMul(segment_area, cylinder_length)
            head_depth      == FxDiv(r, Num(2))
            head_volume     ==
                IF end_cap_type = END_CAP_FLAT THEN Num(0)
                ELSE FxMul(Num(2), compute_ellipsoidal_head_volume(h, r, head_depth))
            total_head_volume ==
                FxMul(FxMul(FxMul(FxMul(FxMul(Num(2), FxDiv(Num(2), Num(3))),
                                        Pi), r), r), head_depth)
            total_volume    == cylinder_volume + head_volume
            circle_area     == FxMul(FxMul(Pi, r), r)
            total_capacity  == FxMul(circle_area, cylinder_length) + total_head_volume
        IN  IF total_capacity = 0 THEN None
            ELSE Some(FxMul(FxDiv(total_volume, total_capacity), Num(100)))

\* tank_percentage with the operands of the acos argument swapped,
\* acos((h - r) / r).
tank_percentage_swapped_acos(h, r, cylinder_length, end_cap_type) ==
    IF r = 0 THEN None                             
    ELSE
    LET x == FxDiv(h - r, r)
        s == FxMul(FxMul(Num(2), r), h) - FxMul(h, h)
    IN  IF x < -F \/ x > F \/ s < 0 THEN None      
        ELSE IF end_cap_type \notin {END_CAP_FLAT, END_CAP_ELLIPSOIDAL_2_1}
        THEN None
        ELSE
        LET arccos_term     == FxMul(FxMul(r, r), FxAcos(x))
            sqrt_term       == FxMul(r - h, FxSqrt(s))
            segment_area    == arccos_term - sqrt_term
            cylinder_volume == FxMul(segment_area, cylinder_length)
            head_depth      == FxDiv(r, Num(2))
            head_volume     ==
                IF end_cap_type = END_CAP_FLAT THEN Num(0)
                ELSE FxMul(Num(2), compute_ellipsoidal_head_volume(h, r, head_depth))
            total_head_volume ==
                IF end_cap_type = END_CAP_FLAT THEN Num(0)
                ELSE FxMul(FxMul(FxMul(FxMul(FxMul(Num(2), FxDiv(Num(2), Num(3))),
                                             Pi), r), r), head_depth)
            total_volume    == cylinder_volume + head_volume
            circle_area     == FxMul(FxMul(Pi, r), r)
            total_capacity  == FxMul(circle_area, cylinder_length) + total_head_volume
        IN  IF total_capacity = 0 THEN None        
            ELSE Some(FxMul(FxDiv(total_volume, total_capacity), Num(100)))

\* The try block of compute_tank_volume_with_heads: the percentage of the
\* tank's capacity below height h, 0 < h < 2r.
tank_percentage(h, r, cylinder_length, end_cap_type) ==
    IF r = 0 THEN None                                \* ZeroDivisionError
    ELSE
    LET x == FxDiv(r - h, r)
        s == FxMul(FxMul(Num(2), r), h) - FxMul(h, h)
    IN  IF x < -F \/ x > F \/ s < 0 THEN None         \* ValueError
        ELSE IF end_cap_type \notin {END_CAP_FLAT, END_CAP_ELLIPSOIDAL_2_1}
        THEN None
        ELSE
        LET arccos_term     == FxMul(FxMul(r, r), FxAcos(x))
            sqrt_term       == FxMul(r - h, FxSqrt(s))
            segment_area    == arccos_term - sqrt_term
            cylinder_volume == FxMul(segment_area, cylinder_length)
            head_depth      == FxDiv(r, Num(2))
            head_volume     ==
                IF end_cap_type = END_CAP_FLAT THEN Num(0)
                ELSE FxMul(Num(2), compute_ellipsoidal_head_volume(h, r, head_depth))
            total_head_volume ==
                IF end_cap_type = END_CAP_FLAT THEN Num(0)
                ELSE FxMul(FxMul(FxMul(FxMul(FxMul(Num(2), FxDiv(Num(2), Num(3))),
                                             Pi), r), r), head_depth)
            total_volume    == cylinder_volume + head_volume
            circle_area     == FxMul(FxMul(Pi, r), r)
            total_capacity  == FxMul(circle_area, cylinder_length) + total_head_volume
        IN  IF total_capacity = 0 THEN None           \* ZeroDivisionError
            ELSE Some(FxMul(FxDiv(total_volume, total_capacity), Num(100)))

\* compute_tank_volume_with_heads rejecting a fill height outside
\* [0, diameter] instead of clamping it.
tank_volume_rejects_out_of_range(fill_height, diameter, cylinder_length, end_cap_type) ==
    IF diameter <= 0 \/ cylinder_length <= 0 THEN None
    ELSE IF fill_height < 0 \/ fill_height > diameter THEN None
    ELSE
    LET h == fill_height
        r == FxDiv(diameter, Num(2))
    IN  IF h <= 0 THEN Some(Num(0))
        ELSE IF h >= diameter THEN Some(Num(100))
        ELSE tank_percentage(h, r, cylinder_length, end_cap_type)

\* compute_tank_volume_with_heads with "and" for "or" in the validation.
tank_volume_validates_with_and(fill_height, diameter, cylinder_length, end_cap_type) ==
    IF diameter <= 0 /\ cylinder_length <= 0 THEN None
    ELSE
    LET h == Max(Num(0), Min(fill_height, diameter))
        r == FxDiv(diameter, Num(2))
    IN  IF h <= 0 THEN Some(Num(0))
        ELSE IF h >= diameter THEN Some(Num(100))
        ELSE tank_percentage(h, r, cylinder_length, end_cap_type)

compute_tank_volume_with_heads(fill_height, diameter, cylinder_length, end_cap_type) ==
    IF diameter <= 0 \/ cylinder_length <= 0 THEN None
    ELSE
    LET h == Max(Num(0), Min(fill_height, diameter))
        r == FxDiv(diameter, Num(2))
    IN  IF h <= 0 THEN Some(Num(0))
        ELSE IF h >= diameter THEN Some(Num(100))
        ELSE tank_percentage(h, r, cylinder_length, end_cap_type)

-----------------------------------------------------------------------------
(* The calls of the geometry engine.  A state is one call: the operation,  *)
(* its arguments and, once it has returned, its result.                    *)

MaxDiameter == 5        \* diameters and radii up to MaxDiameter inches
MaxLength == 3          \* cylinder lengths and head depths up to MaxLength

Diameters == { Num(k) : k \in -1 .. MaxDiameter }
Heights == { Half(k) : k \in -1 .. 2 * MaxDiameter + 1 }
Lengths == { Num(k) : k \in -1 .. MaxLength }
Radii == { Half(k) : k \in 1 .. MaxDiameter }
HeadDepths == { Half(k) : k \in 1 .. MaxLength }
EndCaps == { END_CAP_FLAT, END_CAP_ELLIPSOIDAL_2_1, "hemispherical" }

CylinderArgs ==
    [fill_height_inches : Heights, diameter_inches : Diameters]
\* The fractions of the diameter of test_tank_with_heads_various_heights.
HeightFractions ==
    { FxDiv(Num(1), Num(10)), FxDiv(Num(1), Num(4)), FxDiv(Num(1), Num(2)),
      FxDiv(Num(3), Num(4)), FxDiv(Num(9), Num(10)) }

\* A tank call has a fill height of the grid or a fraction of its diameter.
TankArgs ==
    [fill_height : Heights, diameter : Diameters, cylinder_length : Lengths,
     end_cap_type : EndCaps]
    \cup { [fill_height |-> FxMul(d, f), diameter |-> d, cylinder_length |-> L,
            end_cap_type |-> c] :
              d \in Diameters, f \in HeightFractions, L \in Lengths, c \in EndCaps }
HeadArgs ==
    [fill_height : Heights, radius : Radii, head_depth : HeadDepths]

\* No sensor is constructed while the functions are called on their own.
NoSensor ==
    /\ self = None /\ hass = None /\ calls = << >> /\ exc = "" /\ last = "none"

\* No flow runs and no entry exists while the functions are called on their
\* own or the sensor runs.
NoFlow ==
    /\ entries = << >> /\ flows = << >> /\ options_flow = None /\ result = None

GeomInit ==
    /\ pc = "call"
    /\ ret = None
    /\ NoSensor
    /\ NoFlow
    /\ \/ op = "cylinder" /\ args \in CylinderArgs
       \/ op = "tank" /\ args \in TankArgs
       \/ op = "head" /\ args \in HeadArgs

CallCylinder ==
    /\ pc = "call" /\ op = "cylinder"
    /\ ret' = compute_horizontal_cylinder_volume_percentage(
                  args.fill_height_inches, args.diameter_inches)
    /\ pc' = "done"
    /\ UNCHANGED <<op, args>>
    /\ UNCHANGED sensor_vars
    /\ UNCHANGED flow_vars

CallTank ==
    /\ pc = "call" /\ op = "tank"
    /\ ret' = compute_tank_volume_with_heads(
                  args.fill_height, args.diameter, args.cylinder_length,
                  args.end_cap_type)
    /\ pc' = "done"
    /\ UNCHANGED <<op, args>>
    /\ UNCHANGED sensor_vars
    /\ UNCHANGED flow_vars

CallHead ==
    /\ pc = "call" /\ op = "head"
    /\ ret' = Some(compute_ellipsoidal_head_volume(
                       args.fill_height, args.radius, args.head_depth))
    /\ pc' = "done"
    /\ UNCHANGED <<op, args>>
    /\ UNCHANGED sensor_vars
    /\ UNCHANGED flow_vars

GeomNext == CallCylinder \/ CallTank \/ CallHead

GeomSpec == GeomInit /\ [][GeomNext]_vars

-----------------------------------------------------------------------------
(* sensor.py: thermal compensation                                         *)

\* homeassistant.const.UnitOfTemperature (the degree sign is left out).
UNIT_CELSIUS == "degC"
UNIT_FAHRENHEIT == "degF"

\* The names const.py defines, and the names sensor.py imports from it.
const_py_names ==
    { "DOMAIN", "CONF_SOURCE_ENTITY", "CONF_TANK_DIAMETER",
      "CONF_TANK_TOTAL_LENGTH", "CONF_TANK_VOLUME", "CONF_NAME",
      "CONF_END_CAP_TYPE", "CONF_CYLINDER_LENGTH", "CONF_TANK_CAPACITY",
      "CONF_TEMPERATURE_ENTITY", "CONF_ADJUSTMENT_COEFFICIENT",
      "END_CAP_FLAT", "END_CAP_ELLIPSOIDAL_2_1", "CAPACITY_250",
      "CAPACITY_325", "CAPACITY_500", "CAPACITY_1000", "CAPACITY_CUSTOM",
      "TANK_SPECS", "DEFAULT_NAME", "DEFAULT_END_CAP_TYPE",
      "DEFAULT_TANK_CAPACITY", "REFERENCE_TEMPERATURE_F",
      "PROPANE_EXPANSION_COEFFICIENT_F", "DEFAULT_ADJUSTMENT_COEFFICIENT",
      "PLATFORMS" }

sensor_py_imports ==
    { "CONF_CYLINDER_LENGTH", "CONF_END_CAP_TYPE", "CONF_SOURCE_ENTITY",
      "CONF_TANK_DIAMETER", "CONF_TEMPERATURE_ENTITY",
      "DEFAULT_REFERENCE_TEMP_C", "DEFAULT_REFERENCE_TEMP_F", "DOMAIN",
      "END_CAP_ELLIPSOIDAL_2_1", "END_CAP_FLAT", "TEMP_EXPANSION_COEFF_C",
      "TEMP_EXPANSION_COEFF_F" }

\* An expansion coefficient is a small float: it carries CoefBits more
\* fraction bits than the other floats (the integer n stands for n / 2^28).
CoefBits == 8

\* beta * x for an expansion coefficient beta.
CoefMul(beta, x) ==
    Sign(x) * (Abs(FxMul(beta, x)) \div 2^CoefBits)

\* The four constants apply_temperature_compensation reads.  const.py does
\* not define them; their values are those of the specification: 60 F and
\* 0.0019 per degree F, 15 C and 9/5 of that coefficient per degree C.
DEFAULT_REFERENCE_TEMP_F == Num(60)
DEFAULT_REFERENCE_TEMP_C == Num(15)
TEMP_EXPANSION_COEFF_F == 510027        \* 0.0019
TEMP_EXPANSION_COEFF_C == FxDiv(FxMul(TEMP_EXPANSION_COEFF_F, Num(9)), Num(5))

\* An exception that leaves a function, by its name.
Raise(e) == <<e, e>>
Raised(x) == Len(x) = 2

\* apply_temperature_compensation with the constants of the two units
\* swapped.
compensation_units_swapped(volume_percentage, temperature, temperature_unit) ==
    LET beta == IF temperature_unit = UNIT_CELSIUS THEN TEMP_EXPANSION_COEFF_F
                ELSE TEMP_EXPANSION_COEFF_C
        reference_temp == IF temperature_unit = UNIT_CELSIUS
                          THEN DEFAULT_REFERENCE_TEMP_F
                          ELSE DEFAULT_REFERENCE_TEMP_C
        temp_diff == temperature - reference_temp
        denominator == F + CoefMul(beta, temp_diff)
    IN  IF denominator = 0 THEN Raise("ZeroDivisionError")
        ELSE LET compensation_factor == FxDiv(F, denominator)
             IN  Some(FxMul(volume_percentage, compensation_factor))

\* apply_temperature_compensation multiplying by 1 + beta * dT instead of
\* dividing by it.
compensation_multiplies(volume_percentage, temperature, temperature_unit) ==
    LET beta == IF temperature_unit = UNIT_CELSIUS THEN TEMP_EXPANSION_COEFF_C
                ELSE TEMP_EXPANSION_COEFF_F
        reference_temp == IF temperature_unit = UNIT_CELSIUS
                          THEN DEFAULT_REFERENCE_TEMP_C
                          ELSE DEFAULT_REFERENCE_TEMP_F
        temp_diff == temperature - reference_temp
        compensation_factor == F + CoefMul(beta, temp_diff)
    IN  Some(FxMul(volume_percentage, compensation_factor))

apply_temperature_compensation(volume_percentage, temperature, temperature_unit) ==
    LET beta == IF temperature_unit = UNIT_CELSIUS THEN TEMP_EXPANSION_COEFF_C
                ELSE TEMP_EXPANSION_COEFF_F
        reference_temp == IF temperature_unit = UNIT_CELSIUS
                          THEN DEFAULT_REFERENCE_TEMP_C
                          ELSE DEFAULT_REFERENCE_TEMP_F
        temp_diff == temperature - reference_temp
        denominator == F + CoefMul(beta, temp_diff)
    IN  IF denominator = 0 THEN Raise("ZeroDivisionError")
        ELSE LET compensation_factor == FxDiv(F, denominator)
             IN  Some(FxMul(volume_percentage, compensation_factor))

-----------------------------------------------------------------------------
(* The calls of thermal compensation, and the import of sensor.py.         *)

\* The temperature at which 1 + beta * (T - reference_temp) is 0.
PoleTemperature(reference_temp, beta) ==
    reference_temp - (FxDiv(Num(2^CoefBits), beta) + 1)

Percentages == { Num(0), Num(25), Num(50), Num(75), Num(100) }
Temperatures ==
    { Num(-600), Num(-400), Num(-20), Num(5), Num(15), Num(25), Num(40),
      Num(60), Num(80), Num(100),
      PoleTemperature(DEFAULT_REFERENCE_TEMP_F, TEMP_EXPANSION_COEFF_F),
      PoleTemperature(DEFAULT_REFERENCE_TEMP_C, TEMP_EXPANSION_COEFF_C) }
Units == { UNIT_CELSIUS, UNIT_FAHRENHEIT, "K" }

CompensationArgs ==
    [volume_percentage : Percentages, temperature : Temperatures,
     temperature_unit : Units]

CompInit ==
    /\ pc = "call"
    /\ ret = None
    /\ NoSensor
    /\ NoFlow
    /\ \/ op = "compensate" /\ args \in CompensationArgs
       \/ op = "import" /\ args = [names |-> sensor_py_imports]

CallCompensate ==
    /\ pc = "call" /\ op = "compensate"
    /\ LET x == apply_temperature_compensation(
                    args.volume_percentage, args.temperature,
                    args.temperature_unit)
       IN  /\ ret' = x
           /\ pc' = IF Raised(x) THEN "raised" ELSE "done"
    /\ UNCHANGED <<op, args>>
    /\ UNCHANGED sensor_vars
    /\ UNCHANGED flow_vars

\* from .const import (...): ImportError unless const.py defines every name.
ImportConst ==
    /\ pc = "call" /\ op = "import"
    /\ IF args.names \subseteq const_py_names
       THEN pc' = "done" /\ ret' = None
       ELSE pc' = "raised" /\ ret' = Raise("ImportError")
    /\ UNCHANGED <<op, args>>
    /\ UNCHANGED sensor_vars
    /\ UNCHANGED flow_vars

CompNext == CallCompensate \/ ImportConst

CompSpec == CompInit /\ [][CompNext]_vars

-----------------------------------------------------------------------------
(* sensor.py: TankVolumeSensor                                             *)

\* The state of an entity in hass.states: its state string and its
\* unit_of_measurement attribute (None when the attribute is absent).  The
\* string of a number is kept as the number it reads as.
StateOf(text, value, unit) == [state |-> text, value |-> value, unit |-> unit]

STATE_UNKNOWN == "unknown"
STATE_UNAVAILABLE == "unavailable"

\* str(x) of a float x and float(s) of a string s: float(str(x)) = x, and
\* float(s) raises ValueError when s is not the string of a number.
str(x) == StateOf("number", x, None)
float(state) ==
    IF state.state = "number" THEN Some(state.value) ELSE Raise("ValueError")

\* A handler's outcome: the sensor it leaves, the calls it made and the
\* exception that left it.
Outcome(s, c, e) == [self |-> s, calls |-> c, exc |-> e]

\* The one element of a one-element set: the value of an expression,
\* computed once.
Value(S) == CHOOSE x \in S : TRUE

\* Line 409: cylinder_length = self._cylinder_length or self._tank_diameter.
source_cylinder_length(s) ==
    IF s.cylinder_length = None \/ s.cylinder_length = Some(0)
    THEN s.tank_diameter ELSE s.cylinder_length[1]

\* _handle_source_state passing the configured cylinder length on as it
\* is: a missing or zero length is not a length the geometry engine
\* accepts.
source_percentage_no_substitution(s, fill_height) ==
    IF s.end_cap_type = END_CAP_FLAT
    THEN compute_horizontal_cylinder_volume_percentage(
             fill_height, s.tank_diameter)
    ELSE IF s.cylinder_length = None THEN None
         ELSE compute_tank_volume_with_heads(
                  fill_height, s.tank_diameter, s.cylinder_length[1],
                  s.end_cap_type)

\* Lines 401-415 of _handle_source_state: the percentage of the geometry
\* engine for the parsed fill height.
source_percentage(s, fill_height) ==
    IF s.end_cap_type = END_CAP_FLAT
    THEN compute_horizontal_cylinder_volume_percentage(
             fill_height, s.tank_diameter)
    ELSE compute_tank_volume_with_heads(
             fill_height, s.tank_diameter, source_cylinder_length(s),
             s.end_cap_type)

\* The call of the geometry engine these lines make.
source_call(s, fill_height) ==
    IF s.end_cap_type = END_CAP_FLAT
    THEN [op |-> "cylinder", fill_height |-> fill_height,
          diameter |-> s.tank_diameter]
    ELSE [op |-> "tank", fill_height |-> fill_height,
          diameter |-> s.tank_diameter,
          cylinder_length |-> source_cylinder_length(s),
          end_cap_type |-> s.end_cap_type]

\* The call of apply_temperature_compensation lines 417-426 make, if any.
compensation_calls(s, percentage) ==
    IF /\ percentage # None
       /\ s.temperature_entity
       /\ s.temperature # None
       /\ s.temperature_unit # None
    THEN << [op |-> "compensate", volume_percentage |-> percentage[1],
             temperature |-> s.temperature[1],
             temperature_unit |-> s.temperature_unit[1]] >>
    ELSE << >>

\* Lines 417-426: the compensation, if configured and available.
compensated_percentage(s, percentage) ==
    IF /\ percentage # None
       /\ s.temperature_entity
       /\ s.temperature # None
       /\ s.temperature_unit # None
    THEN apply_temperature_compensation(
             percentage[1], s.temperature[1], s.temperature_unit[1])
    ELSE percentage

\* Line 428, or the exception of the compensation, which is none of those
\* the try block catches: it leaves the handler after _fill_height was
\* assigned and before _attr_native_value is.
store_percentage(s, called, percentage) ==
    IF Raised(percentage)
    THEN Outcome(s, called, percentage[1])
    ELSE Outcome([s EXCEPT !.native_value = percentage], called, "")

\* _handle_source_state(state_value).
handle_source_state(s, state) ==
    LET cleared == [s EXCEPT !.native_value = None, !.fill_height = None]
    IN
    IF state.state \in {STATE_UNKNOWN, STATE_UNAVAILABLE, "None"}
    THEN Outcome(cleared, << >>, "")
    ELSE
      LET parsed == float(state) IN
      IF Raised(parsed) THEN Outcome(cleared, << >>, "")
      ELSE
        LET fill_height == parsed[1]
            s1 == [s EXCEPT !.fill_height = Some(fill_height)]
        IN  Value({ Value({ store_percentage(
                                s1,
                                <<source_call(s1, fill_height)>>
                                    \o compensation_calls(s1, geometry),
                                percentage) :
                              percentage \in
                                { compensated_percentage(s1, geometry) } }) :
                      geometry \in { source_percentage(s1, fill_height) } })

\* _handle_temperature_state without the validation of the unit.
handle_temperature_state_any_unit(s, state) ==
    LET cleared == [s EXCEPT !.temperature = None, !.temperature_unit = None]
    IN
    IF state.state \in {STATE_UNKNOWN, STATE_UNAVAILABLE, "None"}
    THEN Outcome(cleared, << >>, "")
    ELSE
      LET parsed == float(state) IN
      IF Raised(parsed) THEN Outcome(cleared, << >>, "")
      ELSE
        LET s1 == [s EXCEPT !.temperature = parsed,
                            !.temperature_unit = state.unit]
        IN  IF s1.fill_height # None
            THEN handle_source_state(s1, str(s1.fill_height[1]))
            ELSE Outcome(s1, << >>, "")

\* _handle_temperature_state(state).
handle_temperature_state(s, state) ==
    LET cleared == [s EXCEPT !.temperature = None, !.temperature_unit = None]
    IN
    IF state.state \in {STATE_UNKNOWN, STATE_UNAVAILABLE, "None"}
    THEN Outcome(cleared, << >>, "")
    ELSE
      LET parsed == float(state) IN
      IF Raised(parsed) THEN Outcome(cleared, << >>, "")
      ELSE
        LET s1 == [s EXCEPT !.temperature = parsed,
                            !.temperature_unit = state.unit]
        IN  IF state.unit \notin {Some(UNIT_CELSIUS), Some(UNIT_FAHRENHEIT)}
            THEN Outcome(cleared, << >>, "")
            ELSE IF s1.fill_height # None
                 THEN handle_source_state(s1, str(s1.fill_height[1]))
                 ELSE Outcome(s1, << >>, "")

\* async_write_ha_state: the sensor's state becomes its native value
\* (None is published as "unknown").
async_write_ha_state(h, s) == [h EXCEPT !.sensor = s.native_value]

\* The configurations, the source states and the temperature states.
SensorDiameter == 24
SmallSensorDiameter == 4
SensorLength == 3
Configurations ==
    { [tank_diameter |-> Num(SensorDiameter), end_cap_type |-> END_CAP_FLAT,
       cylinder_length |-> None, temperature_entity |-> t] : t \in BOOLEAN }
    \cup { [tank_diameter |-> Num(SmallSensorDiameter),
            end_cap_type |-> END_CAP_ELLIPSOIDAL_2_1,
            cylinder_length |-> L, temperature_entity |-> TRUE] :
              L \in {None, Some(0), Some(Num(SensorLength))} }
    \cup { [tank_diameter |-> Num(SensorDiameter), end_cap_type |-> END_CAP_FLAT,
            cylinder_length |-> Some(Num(SensorLength)),
            temperature_entity |-> FALSE] }

SourceStates ==
    { StateOf(t, 0, None) :
        t \in {STATE_UNKNOWN, STATE_UNAVAILABLE, "None", "not_a_number"} }
    \cup { StateOf("number", Num(v), None) :
             v \in {0, 2, SensorDiameter \div 2, SensorDiameter} }

TemperatureStates ==
    { StateOf(t, 0, Some(UNIT_FAHRENHEIT)) :
        t \in {STATE_UNAVAILABLE, "not_a_number"} }
    \cup { StateOf("number", Num(v), Some(UNIT_FAHRENHEIT)) : v \in {60, 40, -600} }
    \cup { StateOf("number", Num(25), Some(UNIT_CELSIUS)),
           StateOf("number", Num(60), Some("K")),
           StateOf("number", Num(60), None),
           StateOf("number",
                   PoleTemperature(DEFAULT_REFERENCE_TEMP_F, TEMP_EXPANSION_COEFF_F),
                   Some(UNIT_FAHRENHEIT)) }

\* TankVolumeSensor.__init__ for a configuration.
TankVolumeSensor(config) ==
    [tank_diameter |-> config.tank_diameter,
     end_cap_type |-> config.end_cap_type,
     cylinder_length |-> config.cylinder_length,
     temperature_entity |-> config.temperature_entity,
     fill_height |-> None, temperature |-> None, temperature_unit |-> None,
     native_value |-> None]

\* async_setup_entry constructed the sensor; the two entities it reads are
\* in hass.states or not.
SensorInit ==
    /\ op = "sensor" /\ args = None /\ pc = "idle" /\ ret = None
    /\ \E config \in Configurations : self = TankVolumeSensor(config)
    /\ \E source \in {None} \cup { Some(x) : x \in SourceStates },
          temp \in {None} \cup { Some(x) : x \in TemperatureStates } :
         hass = [source |-> source, temperature |-> temp, sensor |-> None]
    /\ calls = << >> /\ exc = "" /\ last = "init"
    /\ NoFlow

\* async_added_to_hass, followed by the first write of the state that
\* adding the entity ends with.  An exception leaves before the state
\* changes are tracked and before the write.
async_added_to_hass ==
    /\ last = "init"
    /\ \E o1 \in { IF hass.source # None
                    THEN handle_source_state(self, hass.source[1])
                    ELSE Outcome(self, << >>, "") } :
       \E o2 \in { IF self.temperature_entity /\ hass.temperature # None
                    THEN handle_temperature_state(o1.self, hass.temperature[1])
                    ELSE Outcome(o1.self, << >>, "") } :
           /\ self' = o2.self
           /\ calls' = o1.calls \o o2.calls
           /\ exc' = o2.exc
           /\ hass' = IF o2.exc = "" THEN async_write_ha_state(hass, o2.self)
                      ELSE hass
           /\ last' = IF o2.exc = "" THEN "added" ELSE "failed"
    /\ UNCHANGED call_vars
    /\ UNCHANGED flow_vars

\* The state changes are tracked once async_added_to_hass returned.
Tracking == last \notin {"init", "failed"}

\* _async_source_changed for a new state of the source entity.
SourceChanged ==
    /\ Tracking
    /\ \E new_state \in SourceStates :
       \E o \in {handle_source_state(self, new_state)} :
         LET h == [hass EXCEPT !.source = Some(new_state)]
         IN  /\ self' = o.self
             /\ calls' = o.calls
             /\ exc' = o.exc
             /\ hass' = IF o.exc = "" THEN async_write_ha_state(h, o.self)
                        ELSE h
    /\ last' = "source"
    /\ UNCHANGED call_vars
    /\ UNCHANGED flow_vars

\* _async_source_changed for a new state of the temperature entity.
TemperatureChanged ==
    /\ Tracking
    /\ self.temperature_entity
    /\ \E new_state \in TemperatureStates :
       \E o \in {handle_temperature_state(self, new_state)} :
         LET h == [hass EXCEPT !.temperature = Some(new_state)]
         IN  /\ self' = o.self
             /\ calls' = o.calls
             /\ exc' = o.exc
             /\ hass' = IF o.exc = "" THEN async_write_ha_state(h, o.self)
                        ELSE h
    /\ last' = "temperature"
    /\ UNCHANGED call_vars
    /\ UNCHANGED flow_vars

\* _async_source_changed treating a removed entity as an unavailable one.
EntityRemovedClears ==
    /\ Tracking
    /\ \E entity \in {"source", "temperature"} :
         /\ entity = "temperature" => self.temperature_entity
         /\ hass[entity] # None
         /\ \E o \in { IF entity = "source"
                       THEN handle_source_state(
                                self, StateOf(STATE_UNAVAILABLE, 0, None))
                       ELSE handle_temperature_state(
                                self, StateOf(STATE_UNAVAILABLE, 0, None)) } :
              /\ self' = o.self
              /\ hass' = async_write_ha_state(
                             [hass EXCEPT ![entity] = None], o.self)
    /\ calls' = << >>
    /\ exc' = ""
    /\ last' = "removed"
    /\ UNCHANGED call_vars
    /\ UNCHANGED flow_vars

\* _async_source_changed for an entity removed from hass.states: new_state
\* is None and the callback returns, without a write.
EntityRemoved ==
    /\ Tracking
    /\ \E entity \in {"source", "temperature"} :
         /\ entity = "temperature" => self.temperature_entity
         /\ hass[entity] # None
         /\ hass' = [hass EXCEPT ![entity] = None]
    /\ calls' = << >>
    /\ exc' = ""
    /\ last' = "removed"
    /\ UNCHANGED self
    /\ UNCHANGED call_vars
    /\ UNCHANGED flow_vars

SensorNext ==
    async_added_to_hass \/ SourceChanged \/ TemperatureChanged \/ EntityRemoved

SensorSpec == SensorInit /\ [][SensorNext]_vars

-----------------------------------------------------------------------------
(* const.py and config_flow.py: the config flow and the options flow       *)

CAPACITY_250 == "250"
CAPACITY_325 == "325"
CAPACITY_500 == "500"
CAPACITY_1000 == "1000"
CAPACITY_CUSTOM == "custom"

\* config_flow.py imports CAPACITY_330, which const.py does not define; its
\* value is the one the selector labels "330 gallon".
CAPACITY_330 == "330"

DEFAULT_END_CAP_TYPE == END_CAP_ELLIPSOIDAL_2_1
DEFAULT_TANK_CAPACITY == CAPACITY_500

\* 37.5
Diameter500 == Num(75) \div 2

\* TANK_SPECS, a dict: its keys and its values.
TANK_SPECS_keys == {CAPACITY_250, CAPACITY_325, CAPACITY_500, CAPACITY_1000}
TANK_SPECS(capacity) ==
    CASE capacity = CAPACITY_250 -> [diameter |-> Num(30), total_length |-> Num(92)]
      [] capacity = CAPACITY_325 -> [diameter |-> Num(30), total_length |-> Num(120)]
      [] capacity = CAPACITY_500 -> [diameter |-> Diameter500, total_length |-> Num(120)]
      [] capacity = CAPACITY_1000 -> [diameter |-> Num(41), total_length |-> Num(194)]

\* TANK_SPECS.get(key, default).
TANK_SPECS_get(key, default) ==
    IF key \in TANK_SPECS_keys THEN TANK_SPECS(key) ELSE default

\* float(tank_capacity) of a capacity string: the number its digits spell.
Digit(c) ==
    CASE c = "0" -> 0 [] c = "1" -> 1 [] c = "2" -> 2 [] c = "3" -> 3
      [] c = "5" -> 5
CapacityDigits(capacity) ==
    CASE capacity = CAPACITY_250 -> <<"2", "5", "0">>
      [] capacity = CAPACITY_325 -> <<"3", "2", "5">>
      [] capacity = CAPACITY_330 -> <<"3", "3", "0">>
      [] capacity = CAPACITY_500 -> <<"5", "0", "0">>
      [] capacity = CAPACITY_1000 -> <<"1", "0", "0", "0">>
RECURSIVE DigitsValue(_)
DigitsValue(digits) ==
    IF digits = << >> THEN 0
    ELSE 10 * DigitsValue(SubSeq(digits, 1, Len(digits) - 1))
         + Digit(digits[Len(digits)])
float_capacity(capacity) == Num(DigitsValue(CapacityDigits(capacity)))

\* The capacities the selectors of both flows offer.
CapacityOptions ==
    {CAPACITY_250, CAPACITY_330, CAPACITY_500, CAPACITY_1000, CAPACITY_CUSTOM}

calculate_cylinder_length(diameter, total_length, end_cap_type) ==
    IF end_cap_type = END_CAP_ELLIPSOIDAL_2_1
    THEN LET head_depth == FxDiv(diameter, Num(4))
         IN  total_length - FxMul(Num(2), head_depth)
    ELSE total_length

\* The three values of the details step.
Details(diameter, total_length, volume) ==
    [tank_diameter |-> diameter, tank_total_length |-> total_length,
     tank_volume |-> volume]
DetailKeys == {"tank_diameter", "tank_total_length", "tank_volume"}

\* _get_details_defaults(tank_capacity, user_input, existing_values); the
\* two dicts are None when they are not given.
get_details_defaults(tank_capacity, user_input, existing_values) ==
    LET specs == TANK_SPECS_get(tank_capacity, TANK_SPECS(DEFAULT_TANK_CAPACITY))
        preset ==
            IF tank_capacity # CAPACITY_CUSTOM
            THEN Details(Some(specs.diameter), Some(specs.total_length),
                         Some(float_capacity(tank_capacity)))
            ELSE Details(None, None, None)
        existing ==
            IF existing_values # None /\ tank_capacity = CAPACITY_CUSTOM
            THEN [k \in DetailKeys |->
                    IF existing_values[1][k] # None THEN existing_values[1][k]
                    ELSE preset[k]]
            ELSE preset
    IN  IF user_input # None
        THEN [k \in DetailKeys |-> Some(user_input[1][k])]
        ELSE existing

\* The errors dict of a details step accepting a zero value.
details_errors_accepts_zero(user_input) ==
    (IF user_input.tank_diameter < 0
     THEN {<<"tank_diameter", "invalid_diameter">>} ELSE {})
    \cup (IF user_input.tank_total_length < 0
          THEN {<<"tank_total_length", "invalid_length">>} ELSE {})
    \cup (IF user_input.tank_volume < 0
          THEN {<<"tank_volume", "invalid_volume">>} ELSE {})

\* The errors dict of a details step, as the set of its items.
details_errors(user_input) ==
    (IF user_input.tank_diameter <= 0
     THEN {<<"tank_diameter", "invalid_diameter">>} ELSE {})
    \cup (IF user_input.tank_total_length <= 0
          THEN {<<"tank_total_length", "invalid_length">>} ELSE {})
    \cup (IF user_input.tank_volume <= 0
          THEN {<<"tank_volume", "invalid_volume">>} ELSE {})

\* The results of a step: a form, a created entry, an abort.
ShowForm(flow, step_id, errors, defaults, read_only) ==
    [type |-> "form", flow |-> flow, step_id |-> step_id, errors |-> errors,
     defaults |-> defaults, read_only |-> read_only]
CreateEntry(flow, data) ==
    [type |-> "create_entry", flow |-> flow, data |-> data]
Abort(flow, reason) ==
    [type |-> "abort", flow |-> flow, reason |-> reason]

\* The form of a details step: _get_details_defaults and
\* _build_details_schema.
DetailsForm(flow, tank_capacity, user_input, existing_values, errors) ==
    ShowForm(flow, "details", errors,
             get_details_defaults(tank_capacity, user_input, existing_values),
             tank_capacity # CAPACITY_CUSTOM)

\* The data of an entry: {**_user_input, **user_input, cylinder_length}.
EntryData(first_input, user_input, cylinder_length) ==
    [source_entity |-> first_input.source_entity,
     tank_capacity |-> first_input.tank_capacity,
     end_cap_type |-> first_input.end_cap_type,
     tank_diameter |-> user_input.tank_diameter,
     tank_total_length |-> user_input.tank_total_length,
     tank_volume |-> user_input.tank_volume,
     cylinder_length |-> cylinder_length]

\* entry.options.get(key, entry.data.get(key)); the options are None until
\* an options flow created them.
EntryValue(entry, key) ==
    IF entry.options # None THEN entry.options[key] ELSE entry.data[key]

\* The flows, and what their forms are submitted with.
FlowIds == {"config 1", "config 2"}
Sources == {"sensor.a", "sensor.b"}
UserInputs ==
    [source_entity : Sources, tank_capacity : {CAPACITY_250, CAPACITY_CUSTOM},
     end_cap_type : {END_CAP_FLAT, END_CAP_ELLIPSOIDAL_2_1}]
OptionsInputs ==
    [tank_capacity : CapacityOptions,
     end_cap_type : {END_CAP_FLAT, END_CAP_ELLIPSOIDAL_2_1}]
DetailInputs ==
    { Details(Num(24), Num(120), Num(250)),
      Details(Num(24), Num(10), Num(250)),
      Details(0, Num(120), Num(250)),
      Details(Num(-1), Num(120), Num(250)),
      Details(Num(24), 0, 0),
      Details(0, 0, 0) }

\* No entry exists and no flow was started.
FlowInit ==
    /\ op = "flow" /\ args = None /\ pc = "idle" /\ ret = None
    /\ NoSensor
    /\ entries = << >>
    /\ flows = [f \in FlowIds |-> [step |-> "none", user_input |-> None]]
    /\ options_flow = None
    /\ result = None

\* flow.async_init: async_step_user without input shows the user form.
ConfigFlowInit(f) ==
    /\ flows[f].step = "none"
    /\ flows' = [flows EXCEPT ![f].step = "user"]
    /\ result' = ShowForm(f, "user", {}, None, FALSE)
    /\ UNCHANGED <<entries, options_flow>>
    /\ UNCHANGED call_vars
    /\ UNCHANGED sensor_vars

\* TankVolumeConfigFlow.async_step_user with input: it keeps the input and
\* goes on to async_step_details without input.
async_step_user(f) ==
    /\ flows[f].step = "user"
    /\ \E user_input \in UserInputs :
         /\ flows' = [flows EXCEPT ![f] = [step |-> "details",
                                           user_input |-> Some(user_input)]]
         /\ result' = DetailsForm(f, user_input.tank_capacity, None, None, {})
    /\ UNCHANGED <<entries, options_flow>>
    /\ UNCHANGED call_vars
    /\ UNCHANGED sensor_vars

\* TankVolumeConfigFlow.async_step_details without the test for an entry of
\* the same source entity.
config_step_details_no_duplicate_test(f) ==
    /\ flows[f].step = "details"
    /\ \E user_input \in DetailInputs :
         LET first_input == flows[f].user_input[1]
             errors == details_errors(user_input)
             cylinder_length ==
                 calculate_cylinder_length(
                     user_input.tank_diameter, user_input.tank_total_length,
                     first_input.end_cap_type)
             data == EntryData(first_input, user_input, cylinder_length)
         IN  IF errors = {}
             THEN /\ entries' = Append(entries, [data |-> data, options |-> None])
                  /\ flows' = [flows EXCEPT ![f].step = "done"]
                  /\ result' = CreateEntry(f, data)
             ELSE /\ result' = DetailsForm(f, first_input.tank_capacity,
                                           Some(user_input), None, errors)
                  /\ UNCHANGED <<entries, flows>>
    /\ UNCHANGED options_flow
    /\ UNCHANGED call_vars
    /\ UNCHANGED sensor_vars

\* TankVolumeConfigFlow.async_step_details with input.  The step has no
\* await between the test for an entry of the same source entity and its
\* return, and the entry of a create_entry result is added before the event
\* loop runs another flow: the step is one action.
config_step_details(f) ==
    /\ flows[f].step = "details"
    /\ \E user_input \in DetailInputs :
         LET first_input == flows[f].user_input[1]
             errors == details_errors(user_input)
             cylinder_length ==
                 calculate_cylinder_length(
                     user_input.tank_diameter, user_input.tank_total_length,
                     first_input.end_cap_type)
             data == EntryData(first_input, user_input, cylinder_length)
         IN  IF errors = {}
             THEN IF \E i \in DOMAIN entries :
                       entries[i].data.source_entity = first_input.source_entity
                  THEN /\ flows' = [flows EXCEPT ![f].step = "aborted"]
                       /\ result' = Abort(f, "already_configured")
                       /\ UNCHANGED entries
                  ELSE /\ entries' = Append(entries,
                                            [data |-> data, options |-> None])
                       /\ flows' = [flows EXCEPT ![f].step = "done"]
                       /\ result' = CreateEntry(f, data)
             ELSE /\ result' = DetailsForm(f, first_input.tank_capacity,
                                           Some(user_input), None, errors)
                  /\ UNCHANGED <<entries, flows>>
    /\ UNCHANGED options_flow
    /\ UNCHANGED call_vars
    /\ UNCHANGED sensor_vars

\* The stored diameter, total length and volume of an entry, as the
\* options flow reads them.
ExistingValues(entry) ==
    [k \in DetailKeys |-> Some(EntryValue(entry, k))]

\* The options flow of an entry is opened: async_step_init without input
\* shows the init form.  One options flow is run.
OptionsFlowInit ==
    /\ options_flow = None
    /\ \E e \in DOMAIN entries :
         options_flow' = [step |-> "init", entry |-> e, options_input |-> None]
    /\ result' = ShowForm("options", "init", {}, None, FALSE)
    /\ UNCHANGED <<entries, flows>>
    /\ UNCHANGED call_vars
    /\ UNCHANGED sensor_vars

\* TankVolumeOptionsFlowHandler.async_step_init with input: it keeps the
\* input and goes on to async_step_details without input.
async_step_init ==
    /\ options_flow # None
    /\ options_flow.step = "init"
    /\ \E user_input \in OptionsInputs :
         /\ options_flow' = [options_flow EXCEPT
                               !.step = "details",
                               !.options_input = Some(user_input)]
         /\ result' = DetailsForm(
                          "options", user_input.tank_capacity, None,
                          Some(ExistingValues(entries[options_flow.entry])), {})
    /\ UNCHANGED <<entries, flows>>
    /\ UNCHANGED call_vars
    /\ UNCHANGED sensor_vars

\* TankVolumeOptionsFlowHandler.async_step_details with input; the data of
\* its create_entry result become the options of the entry.
options_step_details ==
    /\ options_flow # None
    /\ options_flow.step = "details"
    /\ \E user_input \in DetailInputs :
         LET e == options_flow.entry
             options_input == options_flow.options_input[1]
             errors == details_errors(user_input)
             cylinder_length ==
                 calculate_cylinder_length(
                     user_input.tank_diameter, user_input.tank_total_length,
                     options_input.end_cap_type)
             data == [tank_capacity |-> options_input.tank_capacity,
                      end_cap_type |-> options_input.end_cap_type,
                      tank_diameter |-> user_input.tank_diameter,
                      tank_total_length |-> user_input.tank_total_length,
                      tank_volume |-> user_input.tank_volume,
                      cylinder_length |-> cylinder_length]
         IN  IF errors = {}
             THEN /\ entries' = [entries EXCEPT ![e].options = data]
                  /\ options_flow' = [options_flow EXCEPT !.step = "done"]
                  /\ result' = CreateEntry("options", data)
             ELSE /\ result' = DetailsForm(
                                   "options", options_input.tank_capacity,
                                   Some(user_input),
                                   Some(ExistingValues(entries[e])), errors)
                  /\ UNCHANGED <<entries, options_flow>>
    /\ UNCHANGED flows
    /\ UNCHANGED call_vars
    /\ UNCHANGED sensor_vars

FlowNext ==
    \/ \E f \in FlowIds :
         ConfigFlowInit(f) \/ async_step_user(f) \/ config_step_details(f)
    \/ OptionsFlowInit
    \/ async_step_init
    \/ options_step_details

FlowSpec == FlowInit /\ [][FlowNext]_vars

-----------------------------------------------------------------------------
(* Properties of the geometry engine.                                      *)

Done(o) == pc = "done" /\ op = o

\* 0.01, the tolerance of the tests of test_volume_calculation.py.
Tol == F \div 100

IsValue(p) == p # None
Within(p, v) == IsValue(p) /\ Abs(p[1] - v) < Tol
Close(p, q) == IF IsValue(p) /\ IsValue(q) THEN Abs(p[1] - q[1]) < Tol ELSE p = q
InRange(p) == p = None \/ (Num(0) <= p[1] /\ p[1] <= Num(100))

SupportedCap(c) == c \in {END_CAP_FLAT, END_CAP_ELLIPSOIDAL_2_1}

\* The arguments of a call of one of the two percentage operations that
\* describe a tank: a diameter > 0 and, for the tank with heads, a cylinder
\* length > 0 and a supported end-cap kind.
ValidCylinderCall ==
    Done("cylinder") /\ args.diameter_inches > 0
ValidTankCall ==
    Done("tank") /\ args.diameter > 0 /\ args.cylinder_length > 0
                 /\ SupportedCap(args.end_cap_type)

\* Total capacity of the two 2:1 heads of a tank of radius r
\* (compute_tank_volume_with_heads, total_head_volume).
TotalHeadCapacity(r) ==
    FxMul(FxMul(FxMul(FxMul(FxMul(Num(2), FxDiv(Num(2), Num(3))), Pi), r), r),
          FxDiv(r, Num(2)))

\* C1: both percentage operations return no value or a percentage in
\* [0, 100], and for a fill height strictly inside the tank the liquid in
\* the two heads never exceeds the capacity of the two heads.
C1_PercentageInRange ==
    /\ ValidCylinderCall => InRange(ret)
    /\ ValidTankCall => InRange(ret)
    /\ (ValidTankCall /\ args.end_cap_type = END_CAP_ELLIPSOIDAL_2_1
          /\ 0 < args.fill_height /\ args.fill_height < args.diameter)
       => LET r == FxDiv(args.diameter, Num(2))
          IN  FxMul(Num(2), compute_ellipsoidal_head_volume(
                                args.fill_height, r, FxDiv(r, Num(2))))
                <= TotalHeadCapacity(r)

\* C2: with 2:1 ellipsoidal heads, a fill height of half the diameter is
\* 50% of the volume (within 0.01) for every diameter and cylinder length.
C2_EllipsoidalHalf ==
    (ValidTankCall /\ args.end_cap_type = END_CAP_ELLIPSOIDAL_2_1
       /\ 2 * args.fill_height = args.diameter)
    => Within(ret, Num(50))

\* The integrated half-ellipsoid volume of test_ellipsoidal_head_volume_formula:
\* 0.5 * pi * r * a * (y - y^3 / (3 r^2) + (2/3) r) with y = h - r.
IntegratedHeadVolume(h, r, a) ==
    LET y == h - r
    IN  FxMul(FxMul(FxMul(FxMul(F \div 2, Pi), r), a),
              y - FxDiv(FxMul(FxMul(y, y), y), FxMul(FxMul(Num(3), r), r))
                + FxMul(FxDiv(Num(2), Num(3)), r))

\* C3: for 0 < h < 2r the head volume the code computes equals the
\* integrated half-ellipsoid volume (within 0.01).
C3_HeadVolumeIsIntegral ==
    (Done("head") /\ 0 < args.fill_height
       /\ args.fill_height < FxMul(Num(2), args.radius))
    => Within(ret, IntegratedHeadVolume(args.fill_height, args.radius,
                                        args.head_depth))

\* The full volume of one head, (2/3) * pi * r^2 * a
\* (test_ellipsoidal_head_volume_full).
FullHeadVolume(r, a) ==
    FxMul(FxMul(FxMul(FxMul(FxDiv(Num(2), Num(3)), Pi), r), r), a)

\* C4: the head volume is exactly 0 for a fill height <= 0 and exactly the
\* full-head volume (2/3) pi r^2 a for a fill height >= 2r.
C4_HeadVolumeBoundaries ==
    Done("head") =>
        /\ args.fill_height <= 0 => ret = Some(Num(0))
        /\ args.fill_height >= FxMul(Num(2), args.radius)
             => ret = Some(FullHeadVolume(args.radius, args.head_depth))

C4_Witness ==
    /\ Done("head")
    /\ args.fill_height = FxMul(Num(2), args.radius)
    /\ args.radius = Half(1)
    /\ ret = Some(FullHeadVolume(args.radius, args.head_depth))

\* C5: a fill height outside [0, diameter] is clamped: both percentage
\* operations return exactly 0.0 for a fill height <= 0 and exactly 100.0
\* for a fill height >= diameter.
C5_OutOfRangeClamped ==
    /\ ValidCylinderCall =>
         /\ args.fill_height_inches <= 0 => ret = Some(Num(0))
         /\ args.fill_height_inches >= args.diameter_inches => ret = Some(Num(100))
    /\ ValidTankCall =>
         /\ args.fill_height <= 0 => ret = Some(Num(0))
         /\ args.fill_height >= args.diameter => ret = Some(Num(100))

C5_Witness ==
    /\ ValidTankCall
    /\ args.end_cap_type = END_CAP_ELLIPSOIDAL_2_1
    /\ args.fill_height > args.diameter
    /\ ret = Some(Num(100))

\* C6: a diameter <= 0 (or, with heads, a cylinder length <= 0) yields no
\* value for every fill height and end-cap kind, also for the fill heights
\* that are clamped to 0.0 or 100.0.
C6_InvalidGeometryNoValue ==
    /\ (Done("cylinder") /\ args.diameter_inches <= 0) => ret = None
    /\ (Done("tank") /\ (args.diameter <= 0 \/ args.cylinder_length <= 0))
         => ret = None

C6_Witness ==
    /\ Done("tank")
    /\ args.diameter > 0
    /\ args.cylinder_length <= 0
    /\ args.fill_height >= args.diameter
    /\ ret = None

\* C7: an end-cap kind that is neither flat nor ellipsoidal_2_1 yields no
\* value for every fill height, diameter > 0 and cylinder length > 0.
C7_UnknownCapNoValue ==
    (Done("tank") /\ args.diameter > 0 /\ args.cylinder_length > 0
       /\ ~SupportedCap(args.end_cap_type))
    => ret = None

\* C8: with flat end caps the tank operation returns what the pure-cylinder
\* operation returns for the same fill height and diameter, whatever the
\* cylinder length (equality of floats up to the 0.01 of the tests).
C8_FlatEqualsCylinder ==
    (ValidTankCall /\ args.end_cap_type = END_CAP_FLAT)
    => /\ Close(ret, compute_horizontal_cylinder_volume_percentage(
                         args.fill_height, args.diameter))
       /\ \A L \in Lengths :
            L > 0 => Close(ret, compute_tank_volume_with_heads(
                                    args.fill_height, args.diameter, L,
                                    END_CAP_FLAT))

C8_Witness ==
    /\ ValidTankCall
    /\ args.end_cap_type = END_CAP_FLAT
    /\ 0 < args.fill_height /\ args.fill_height < args.diameter
    /\ 2 * args.fill_height # args.diameter
    /\ args.cylinder_length # args.diameter
    /\ Close(ret, compute_horizontal_cylinder_volume_percentage(
                      args.fill_height, args.diameter))
    /\ IsValue(ret) /\ ret[1] > Num(50)

\* C9: the pure cylinder filled to half its diameter is 50% full (within
\* 0.01), for every diameter.
C9_CylinderHalf ==
    (ValidCylinderCall /\ 2 * args.fill_height_inches = args.diameter_inches)
    => Within(ret, Num(50))

C9_Witness ==
    /\ ValidCylinderCall
    /\ args.diameter_inches = Num(3)
    /\ 2 * args.fill_height_inches = args.diameter_inches
    /\ Within(ret, Num(50))

\* The factors k by which C10 scales all lengths: 1/2 and 2.
ScaleFactors == { F \div 2, Num(2) }

\* C10: multiplying fill height, diameter and cylinder length by k > 0
\* leaves the percentage unchanged (within 0.01), for the pure cylinder and
\* for the tank with either end-cap kind.
C10_ScaleInvariant ==
    /\ ValidCylinderCall =>
         \A k \in ScaleFactors :
            Close(ret, compute_horizontal_cylinder_volume_percentage(
                           FxMul(k, args.fill_height_inches),
                           FxMul(k, args.diameter_inches)))
    /\ ValidTankCall =>
         \A k \in ScaleFactors :
            Close(ret, compute_tank_volume_with_heads(
                           FxMul(k, args.fill_height), FxMul(k, args.diameter),
                           FxMul(k, args.cylinder_length), args.end_cap_type))

\* C11: for a fixed diameter, cylinder length and end-cap kind the
\* percentage of the tank grows with the fill height through 10%, 25%, 50%,
\* 75% and 90% of the diameter: the value at one of these heights is above 0
\* and below the value at every higher one (strictly, as the test asks).
C11_MonotoneInHeight ==
    ValidTankCall =>
        \A f \in HeightFractions :
            args.fill_height = FxMul(args.diameter, f)
            => /\ IsValue(ret) /\ ret[1] > 0
               /\ \A g \in HeightFractions :
                    g > f =>
                      LET q == compute_tank_volume_with_heads(
                                   FxMul(args.diameter, g), args.diameter,
                                   args.cylinder_length, args.end_cap_type)
                      IN  IsValue(q) /\ q[1] > ret[1]

C11_Witness ==
    /\ ValidTankCall
    /\ args.end_cap_type = END_CAP_ELLIPSOIDAL_2_1
    /\ args.diameter = Num(3)
    /\ args.fill_height = FxMul(args.diameter, FxDiv(Num(1), Num(10)))
    /\ IsValue(ret) /\ ret[1] > 0
    /\ ret[1] < compute_tank_volume_with_heads(
                    FxMul(args.diameter, FxDiv(Num(9), Num(10))), args.diameter,
                    args.cylinder_length, args.end_cap_type)[1]

-----------------------------------------------------------------------------
(* Properties of thermal compensation.                                     *)

Returned(o) == op = o /\ pc # "call"

\* 1 + beta * (T - T_ref) for the unit's reference temperature and
\* coefficient.
Denominator(T, T_ref, beta) == F + CoefMul(beta, T - T_ref)

\* The reference temperature and the coefficient of a unit, as the
\* specification gives them.
SpecReference(unit) == IF unit = UNIT_CELSIUS THEN Num(15) ELSE Num(60)
SpecCoefficient(unit) ==
    IF unit = UNIT_CELSIUS THEN FxDiv(FxMul(510027, Num(9)), Num(5)) ELSE 510027

SupportedUnit(u) == u \in {UNIT_CELSIUS, UNIT_FAHRENHEIT}

\* C12: at the reference temperature, 60 F or 15 C, compensation returns
\* the percentage it was given.
C12_IdentityAtReference ==
    (Returned("compensate")
       /\ \/ args.temperature_unit = UNIT_FAHRENHEIT /\ args.temperature = Num(60)
          \/ args.temperature_unit = UNIT_CELSIUS /\ args.temperature = Num(15))
    => ret = Some(args.volume_percentage)

C12_Witness ==
    /\ Done("compensate")
    /\ args.temperature_unit = UNIT_CELSIUS /\ args.temperature = Num(15)
    /\ args.volume_percentage = Num(75)
    /\ ret = Some(Num(75))

C14_FormulaAndConstants ==
    /\ Returned("import") => pc = "done"
    /\ (Done("compensate") /\ SupportedUnit(args.temperature_unit))
       => ret = Some(FxMul(args.volume_percentage,
                           FxDiv(F, Denominator(args.temperature,
                                     SpecReference(args.temperature_unit),
                                     SpecCoefficient(args.temperature_unit)))))

\* The coefficients of test_temperature_compensation.py, 0.00205 per degree
\* F and 0.00369 per degree C.
TestCoefficient(unit) == IF unit = UNIT_CELSIUS THEN 990527 ELSE 550293

\* pytest.approx(expected, rel=1e-4).
ApproxRel(x, expected) == Abs(x - expected) <= Abs(expected) \div 10000

\* C15: the result agrees within relative tolerance 1e-4 with
\* p / (1 + 0.00205 * (T - 60)) for Fahrenheit and
\* p / (1 + 0.00369 * (T - 15)) for Celsius, and 0 is mapped to 0.
C15_AgreesWithTestCoefficients ==
    (Done("compensate") /\ SupportedUnit(args.temperature_unit))
    => /\ args.volume_percentage = 0 => ret = Some(0)
       /\ LET d == Denominator(args.temperature,
                               SpecReference(args.temperature_unit),
                               TestCoefficient(args.temperature_unit))
          IN  d # 0 => ApproxRel(ret[1], FxMul(args.volume_percentage, FxDiv(F, d)))

-----------------------------------------------------------------------------
(* Properties of TankVolumeSensor.                                         *)

\* The source entity has no state, or a state that is not a number.
BadSource == hass.source = None \/ hass.source[1].state # "number"

\* The percentage the geometry engine gives for a fill height with the
\* sensor's configuration.
GeometricPercentage(s, fill_height) ==
    IF s.end_cap_type = END_CAP_FLAT
    THEN compute_horizontal_cylinder_volume_percentage(fill_height, s.tank_diameter)
    ELSE compute_tank_volume_with_heads(
             fill_height, s.tank_diameter,
             IF s.cylinder_length = None \/ s.cylinder_length = Some(0)
             THEN s.tank_diameter ELSE s.cylinder_length[1],
             s.end_cap_type)

\* C16: whenever the source entity's state is 'unknown', 'unavailable',
\* missing or not a number, the sensor publishes no value, its stored fill
\* height is cleared and the last handler made no call of the geometry
\* engine; at startup and after any earlier readings.
C16_BadSourceNoValue ==
    (last # "init" /\ BadSource)
    => /\ hass.sensor = None
       /\ self.fill_height = None
       /\ calls = << >>

\* C17: after a temperature event with a unit other than Celsius or
\* Fahrenheit, the published value is the uncompensated geometric
\* percentage of the current fill height.
C17_UnsupportedUnitUncompensated ==
    (/\ last = "temperature"
     /\ hass.temperature # None
     /\ hass.temperature[1].state = "number"
     /\ hass.temperature[1].unit \notin {Some(UNIT_CELSIUS), Some(UNIT_FAHRENHEIT)})
    => hass.sensor = IF self.fill_height = None THEN None
                     ELSE GeometricPercentage(self, self.fill_height[1])

\* C18: no exception leaves a handler of the sensor: a core computation
\* that fails, the compensation at a temperature with
\* 1 + beta * (T - T_ref) = 0 included, gives no value.
C18_NoExceptionLeavesHandler ==
    exc = "" /\ last # "failed"

\* C19: after a source event with a numeric reading v, the published value
\* is the percentage computed from v with the configuration and the stored
\* temperature, whatever came before.
C19_ValueOfLatestReading ==
    (last = "source" /\ ~BadSource)
    => LET v == hass.source[1].value
           geometry == GeometricPercentage(self, v)
       IN  /\ self.fill_height = Some(v)
           /\ hass.sensor =
                IF geometry # None /\ self.temperature # None
                THEN apply_temperature_compensation(
                         geometry[1], self.temperature[1],
                         self.temperature_unit[1])
                ELSE geometry

\* C20: the published percentage is absent or within [0, 100].
C20_PublishedInRange ==
    hass.sensor = None \/ (0 <= hass.sensor[1] /\ hass.sensor[1] <= Num(100))

\* The stored temperature is a reading that can be compensated with.
ValidTemperature(state) ==
    /\ state # None
    /\ state[1].state = "number"
    /\ state[1].unit \in {Some(UNIT_CELSIUS), Some(UNIT_FAHRENHEIT)}

\* The geometric percentage of a fill height, compensated with a
\* temperature reading.
CompensatedPercentage(s, fill_height, temperature, unit) ==
    LET geometry == GeometricPercentage(s, fill_height)
    IN  IF geometry = None THEN None
        ELSE apply_temperature_compensation(geometry[1], temperature, unit)

\* C24: when the sensor has processed a valid temperature reading while a
\* fill height is stored, at startup or on a temperature event, the
\* published value is the percentage of the stored fill height compensated
\* with that reading.
C24_RecomputedOnTemperature ==
    (/\ last \in {"added", "failed", "temperature"}
     /\ self.temperature_entity
     /\ ValidTemperature(hass.temperature)
     /\ self.fill_height # None)
    => hass.sensor = CompensatedPercentage(
                         self, self.fill_height[1],
                         hass.temperature[1].value, hass.temperature[1].unit[1])

\* C25: an event without new_state changes neither the sensor's fields nor
\* its published state, and a source event changes neither the stored
\* temperature nor its unit.
C25_FrameOfEvents ==
    [][ /\ last' = "removed" => (self' = self /\ hass'.sensor = hass.sensor)
        /\ last' = "source" => /\ self'.temperature = self.temperature
                               /\ self'.temperature_unit = self.temperature_unit
      ]_vars

C25_Witness ==
    /\ last = "removed"
    /\ hass.source = None
    /\ self.fill_height # None
    /\ hass.sensor # None
    /\ self.temperature # None

\* C26: with flat caps the sensor calls the pure-cylinder operation and the
\* cylinder length has no effect; with another kind it calls
\* compute_tank_volume_with_heads with the configured cylinder length, or
\* with the diameter when that length is missing or zero, so that a missing
\* length does not leave the value absent.
C26_OperationByEndCap ==
    (last = "source" /\ ~BadSource /\ self.temperature = None)
    => LET v == hass.source[1].value
           d == self.tank_diameter
           L == IF self.cylinder_length \in {None, Some(0)} THEN d
                ELSE self.cylinder_length[1]
       IN  IF self.end_cap_type = END_CAP_FLAT
           THEN /\ calls = << [op |-> "cylinder", fill_height |-> v,
                               diameter |-> d] >>
                /\ hass.sensor =
                     compute_horizontal_cylinder_volume_percentage(v, d)
           ELSE /\ calls = << [op |-> "tank", fill_height |-> v,
                               diameter |-> d, cylinder_length |-> L,
                               end_cap_type |-> self.end_cap_type] >>
                /\ hass.sensor = compute_tank_volume_with_heads(
                                     v, d, L, self.end_cap_type)
                /\ hass.sensor # None

C26_Witness ==
    /\ last = "source" /\ ~BadSource /\ self.temperature = None
    /\ self.end_cap_type = END_CAP_ELLIPSOIDAL_2_1
    /\ self.cylinder_length = None
    /\ hass.source[1].value = Num(2)
    /\ hass.sensor # None
    /\ calls[1].cylinder_length = self.tank_diameter

\* C27: after every handled event the published value is absent if the
\* fill height is absent, and otherwise the geometric percentage of the
\* stored fill height, compensated if and only if a temperature and a unit
\* are stored.
C27_PublishedConsistent ==
    (last \in {"added", "source", "temperature"} /\ exc = "")
    => hass.sensor =
         IF self.fill_height = None THEN None
         ELSE IF self.temperature # None /\ self.temperature_unit # None
              THEN CompensatedPercentage(
                       self, self.fill_height[1], self.temperature[1],
                       self.temperature_unit[1])
              ELSE GeometricPercentage(self, self.fill_height[1])

\* C28: the stored temperature and its unit are both absent or both
\* present, a present unit is Celsius or Fahrenheit, and the sensor calls
\* apply_temperature_compensation with one of these two units only.
C28_TemperatureAndUnit ==
    /\ (self.temperature = None) <=> (self.temperature_unit = None)
    /\ self.temperature_unit \in {None, Some(UNIT_CELSIUS), Some(UNIT_FAHRENHEIT)}
    /\ \A i \in DOMAIN calls :
         calls[i].op = "compensate"
         => calls[i].temperature_unit \in {UNIT_CELSIUS, UNIT_FAHRENHEIT}

C28_Witness ==
    /\ last = "temperature" /\ exc = ""
    /\ hass.temperature # None
    /\ hass.temperature[1].state = "number"
    /\ hass.temperature[1].unit = Some("K")
    /\ self.fill_height # None
    /\ self.temperature = None /\ self.temperature_unit = None

\* The Fahrenheit reading of a Celsius temperature: T * 9 / 5 + 32.
ToFahrenheit(T_C) == FxMul(T_C, FxDiv(Num(9), Num(5))) + Num(32)

\* C30: a temperature gives the same compensated percentage (within 0.01)
\* whether it is read in Celsius or in Fahrenheit.
C30_UnitIndependent ==
    (/\ Done("compensate")
     /\ args.temperature_unit = UNIT_CELSIUS
     /\ Num(-20) <= args.temperature /\ args.temperature <= Num(100))
    => Close(ret,
             apply_temperature_compensation(
                 args.volume_percentage, ToFahrenheit(args.temperature),
                 UNIT_FAHRENHEIT))

-----------------------------------------------------------------------------
(* Properties of the config flow and the options flow. *)

\* The fields of a details submission that are not positive, and the errors
\* map they should give.
NonPositive(values) == {k \in DetailKeys : values[k] <= 0}
ErrorName(k) ==
    CASE k = "tank_diameter" -> "invalid_diameter"
      [] k = "tank_total_length" -> "invalid_length"
      [] k = "tank_volume" -> "invalid_volume"
ExpectedErrors(values) == {<<k, ErrorName(k)>> : k \in NonPositive(values)}

\* The step a flow is on, given the flows.
StepOf(flow, config_flows, options) ==
    IF flow = "options" THEN options.step ELSE config_flows[flow].step

\* The result is the details form shown again with errors.
ErrorForm(r) ==
    /\ r # None
    /\ r.type = "form"
    /\ r.step_id = "details"
    /\ r.errors # {}

\* The result is a created entry.
Created(r) == r # None /\ r.type = "create_entry"

\* C21: in both flows a details submission with a non-positive diameter,
\* total length or volume creates nothing, stays on the details form and
\* reports exactly one error per non-positive field; an entry (or its
\* options) is created only from three positive values.
C21_InvalidDetailsRejected ==
    [][/\ ErrorForm(result')
          => /\ LET submitted == [k \in DetailKeys |-> result'.defaults[k][1]]
                IN  /\ NonPositive(submitted) # {}
                    /\ result'.errors = ExpectedErrors(submitted)
             /\ entries' = entries
             /\ StepOf(result'.flow, flows', options_flow') = "details"
       /\ Created(result') => NonPositive(result'.data) = {}
       /\ entries' # entries => Created(result')
       /\ \A e \in DOMAIN entries' :
            /\ NonPositive(entries'[e].data) = {}
            /\ entries'[e].options # None
               => NonPositive(entries'[e].options) = {}
      ]_vars

C21_Witness ==
    /\ ErrorForm(result)
    /\ result.flow = "options"
    /\ Cardinality(result.errors) = 3
    /\ \E f \in FlowIds : flows[f].step = "details"

\* The entries of a source entity.
EntriesOf(source) ==
    {e \in DOMAIN entries : entries[e].data.source_entity = source}

\* C22: no two entries share a source entity; a config flow whose valid
\* details arrive when its source entity is already used aborts with
\* already_configured, so every finished flow leaves exactly one entry for
\* its source entity.
C22_OneEntryPerSource ==
    /\ \A source \in Sources : Cardinality(EntriesOf(source)) <= 1
    /\ (result # None /\ result.type = "abort")
       => /\ result.reason = "already_configured"
          /\ flows[result.flow].step = "aborted"
    /\ \A f \in FlowIds :
         flows[f].step \in {"done", "aborted"}
         => Cardinality(EntriesOf(flows[f].user_input[1].source_entity)) = 1

C22_Witness ==
    /\ result # None /\ result.type = "abort"
    /\ \E f, g \in FlowIds :
         /\ flows[f].step = "done" /\ flows[g].step = "aborted"
         /\ flows[f].user_input[1].source_entity
            = flows[g].user_input[1].source_entity
    /\ Len(entries) = 1

\* The capacities of the selector other than custom.
PresetOptions == CapacityOptions \ {CAPACITY_CUSTOM}

\* The result is the details form of the options flow as it is first shown,
\* for the capacity chosen in the init step.
OptionsDetailsShown(capacity) ==
    /\ result # None
    /\ result.type = "form" /\ result.flow = "options"
    /\ result.step_id = "details" /\ result.errors = {}
    /\ options_flow.options_input[1].tank_capacity = capacity

\* C23: the details form of the options flow shows, for each preset capacity
\* of the selector, that preset's diameter and total length from TANK_SPECS
\* and the capacity as volume, read-only; for custom it shows the stored
\* values of the entry, editable.
C23_OptionsDefaults ==
    /\ \A capacity \in PresetOptions :
         OptionsDetailsShown(capacity)
         => /\ capacity \in TANK_SPECS_keys
            /\ result.defaults
               = Details(Some(TANK_SPECS(capacity).diameter),
                         Some(TANK_SPECS(capacity).total_length),
                         Some(float_capacity(capacity)))
            /\ result.read_only
    /\ OptionsDetailsShown(CAPACITY_CUSTOM)
       => /\ result.defaults
             = [k \in DetailKeys |->
                  Some(EntryValue(entries[options_flow.entry], k))]
          /\ ~result.read_only

\* The cylinder length the flows should store.
ExpectedCylinderLength(data) ==
    IF data.end_cap_type = END_CAP_FLAT
    THEN data.tank_total_length
    ELSE data.tank_total_length - FxDiv(data.tank_diameter, Num(2))

\* C29: every entry and every set of options the flows create stores the
\* cylinder length of its end caps, and that length is positive.
C29_CylinderLengthPositive ==
    \A e \in DOMAIN entries :
      /\ entries[e].data.cylinder_length = ExpectedCylinderLength(entries[e].data)
      /\ entries[e].data.cylinder_length > 0
      /\ entries[e].options # None
         => /\ entries[e].options.cylinder_length
               = ExpectedCylinderLength(entries[e].options)
            /\ entries[e].options.cylinder_length > 0

====
